---- MODULE Spec2Model ----
(***************************************************************************)
(* RSI-of-MA crossover strategy (src/src/rsi_of_ma_strategy.py).           *)
(*                                                                         *)
(* compute_indicators derives ma, rsi_ma, rsi_signal and the crossover     *)
(* flags from a date-sorted price table; generate_trades scans the         *)
(* annotated table once and returns the completed round trips.             *)
(*                                                                         *)
(* Floating-point columns are modelled as exact rationals extended with    *)
(* NaN and +/-inf (the values pandas produces for 0/0 and x/0); rounding   *)
(* error is outside the model.                                             *)
(***************************************************************************)
EXTENDS Integers, Sequences, FiniteSets, TLC

VARIABLES
    df,           \* the loaded price table, sorted by date
    params,       \* the lengths passed to compute_indicators
    df_ind,       \* the table compute_indicators returned
    pc,           \* "loaded" before compute_indicators has run, "ready" after
    direction,    \* argument of the latest generate_trades call
    in_trade,     \* generate_trades' locals, as the latest call left them
    entry_price,
    entry_date,
    signal_date,
    trades,
    scanned,      \* loop iterations the latest call executed
    results,      \* what each generate_trades call returned, in call order
    band,         \* the last simulate_band call (none: <<>>): band and stats
    sweep,        \* the simulate_band calls of a sweep so far, in call order
    idx,          \* build_oracle_trades' scan index i
    csv_exists,   \* whether the CSV file of prices exists
    csv_file,     \* the rows of the CSV file
    today,        \* the day download_nifty_incremental last ran on
    feed          \* what each try_download call of that run returned

locals == <<direction, in_trade, entry_price, entry_date, signal_date, trades,
            scanned>>

\* state of the other programs of the repository
band_vars == <<band, sweep>>
oracle_vars == <<idx>>
download_vars == <<csv_exists, csv_file, today, feed>>

vars == <<df, params, df_ind, pc, direction, in_trade, entry_price, entry_date,
          signal_date, trades, scanned, results, band, sweep, idx, csv_exists,
          csv_file, today, feed>>

(* ------------------------------ bounds --------------------------------- *)

\* longest price table
MaxLen == 6
\* number of price levels a close is drawn from
MaxPrice == 2
\* the open of a bar is the previous close plus an overnight gap in
\* -MaxGap..MaxGap, the same on every bar of a table
MaxGap == 1

\* closes; the lowest level keeps every open positive
PriceSet == (MaxGap + 1)..(MaxGap + MaxPrice)

\* (ma_length, rsi_length, signal_length) passed to compute_indicators
ParamSets ==
    { [ma_length |-> 1, rsi_length |-> 1, signal_length |-> 2],
      [ma_length |-> 1, rsi_length |-> 1, signal_length |-> 5],
      [ma_length |-> 1, rsi_length |-> 2, signal_length |-> 2],
      [ma_length |-> 3, rsi_length |-> 1, signal_length |-> 2] }

\* direction arguments passed to generate_trades
Directions == {"long", "short", "both"}

(* --------------------- float values as rationals ----------------------- *)

RECURSIVE GCD(_, _)
GCD(a, b) == IF b = 0 THEN a ELSE GCD(b, a % b)

Abs(x) == IF x < 0 THEN -x ELSE x

NaN == [k |-> "nan", n |-> 0, d |-> 1]
PosInf == [k |-> "inf", n |-> 1, d |-> 1]
NegInf == [k |-> "inf", n |-> -1, d |-> 1]

\* the rational n/d (d # 0) in lowest terms with a positive denominator
Rat(n, d) ==
    LET g == GCD(Abs(n), Abs(d))
        s == IF d < 0 THEN -1 ELSE 1
    IN  [k |-> "num", n |-> s * (n \div g), d |-> s * (d \div g)]

Num(x) == [k |-> "num", n |-> x, d |-> 1]

IsNaN(x) == x.k = "nan"
Sign(x) == IF x.n > 0 THEN 1 ELSE IF x.n < 0 THEN -1 ELSE 0

Neg(x) == IF IsNaN(x) THEN NaN ELSE [x EXCEPT !.n = -x.n]

Add(x, y) ==
    IF IsNaN(x) \/ IsNaN(y) THEN NaN
    ELSE IF x.k = "inf" /\ y.k = "inf" THEN (IF x.n = y.n THEN x ELSE NaN)
    ELSE IF x.k = "inf" THEN x
    ELSE IF y.k = "inf" THEN y
    ELSE Rat(x.n * y.d + y.n * x.d, x.d * y.d)

Sub(x, y) == Add(x, Neg(y))

Mul(x, y) ==
    IF IsNaN(x) \/ IsNaN(y) THEN NaN
    ELSE IF x.k = "inf" \/ y.k = "inf"
         THEN (IF Sign(x) * Sign(y) = 0 THEN NaN
               ELSE IF Sign(x) * Sign(y) > 0 THEN PosInf ELSE NegInf)
    ELSE Rat(x.n * y.n, x.d * y.d)

\* IEEE division: x/0 is +/-inf, 0/0 and inf/inf are NaN, x/inf is 0
Div(x, y) ==
    IF IsNaN(x) \/ IsNaN(y) THEN NaN
    ELSE IF y.k = "inf" THEN (IF x.k = "inf" THEN NaN ELSE Num(0))
    ELSE IF y.n = 0
         THEN (IF Sign(x) = 0 THEN NaN
               ELSE IF Sign(x) > 0 THEN PosInf ELSE NegInf)
    ELSE IF x.k = "inf" THEN (IF Sign(x) * Sign(y) > 0 THEN PosInf ELSE NegInf)
    ELSE Rat(x.n * y.d, x.d * y.n)

\* comparisons; every comparison with NaN is false
Lt(x, y) ==
    /\ ~IsNaN(x) /\ ~IsNaN(y)
    /\ IF x.k = "inf" THEN x.n < 0 /\ ~(y.k = "inf" /\ y.n < 0)
       ELSE IF y.k = "inf" THEN y.n > 0
       ELSE x.n * y.d < y.n * x.d
Gt(x, y) == Lt(y, x)
Le(x, y) == ~IsNaN(x) /\ ~IsNaN(y) /\ ~Lt(y, x)
Ge(x, y) == Le(y, x)

\* a column of a table, held as a tuple of its values
Column(f) == f \o <<>>

(* ------------------------------ ema ------------------------------------ *)

\* state of pandas' ewm(adjust=False).mean() after values 1..t of series
RECURSIVE EwmState(_, _, _)
EwmState(series, alpha, t) ==
    IF t = 1 THEN [weighted |-> series[1], old_wt |-> Num(1)]
    ELSE LET p   == EwmState(series, alpha, t - 1)
             cur == series[t]
             ow  == Mul(p.old_wt, Sub(Num(1), alpha))
         IN  IF IsNaN(p.weighted)
             THEN [weighted |-> cur, old_wt |-> Num(1)]
             ELSE IF IsNaN(cur)
             THEN [weighted |-> p.weighted, old_wt |-> ow]
             ELSE [weighted |-> Div(Add(Mul(ow, p.weighted), Mul(alpha, cur)),
                                    Add(ow, alpha)),
                   old_wt |-> Num(1)]

ema(series, length) ==
    Column([t \in 1..Len(series) |->
              EwmState(series, Rat(2, length + 1), t).weighted])

(* ------------------------------ rsi ------------------------------------ *)

\* series.diff()
diff(series) ==
    Column([t \in 1..Len(series) |->
              IF t = 1 THEN NaN ELSE Sub(series[t], series[t - 1])])

RECURSIVE WindowSum(_, _, _)
WindowSum(series, t, length) ==
    IF length = 0 THEN Num(0)
    ELSE Add(series[t], WindowSum(series, t - 1, length - 1))

\* series.rolling(length).mean()
rolling_mean(series, length) ==
    Column([t \in 1..Len(series) |->
              IF t < length THEN NaN
              ELSE Div(WindowSum(series, t, length), Num(length))])

\* faulty variant of rsi_value: undefined values replaced by 0
rsi_value_fillna(gain, loss) ==
    LET rs == Div(gain, loss)
        v  == Sub(Num(100), Div(Num(100), Add(Num(1), rs)))
    IN  IF IsNaN(v) THEN Num(0) ELSE v

\* lines 13-14: rs = gain / loss; 100 - (100 / (1 + rs))
rsi_value(gain, loss) ==
    LET rs == Div(gain, loss)
    IN  Sub(Num(100), Div(Num(100), Add(Num(1), rs)))

\* line 11: gain = (delta.where(delta > 0, 0)).rolling(length).mean()
avg_gain(series, length) ==
    LET delta == diff(series)
        up    == Column([t \in 1..Len(series) |->
                    IF Gt(delta[t], Num(0)) THEN delta[t] ELSE Num(0)])
    IN  rolling_mean(up, length)

\* line 12: loss = (-delta.where(delta < 0, 0)).rolling(length).mean()
avg_loss(series, length) ==
    LET delta == diff(series)
        down  == Column([t \in 1..Len(series) |->
                    Neg(IF Lt(delta[t], Num(0)) THEN delta[t] ELSE Num(0))])
    IN  rolling_mean(down, length)

rsi(series, length) ==
    LET gain  == avg_gain(series, length)
        loss  == avg_loss(series, length)
    IN  Column([t \in 1..Len(series) |-> rsi_value(gain[t], loss[t])])

(* ------------------------ compute_indicators --------------------------- *)

\* series.shift(1)
shift1(series) ==
    Column([t \in 1..Len(series) |-> IF t = 1 THEN NaN ELSE series[t - 1]])

\* faulty variant of cross_up_flags: "not above" instead of "at or below"
\* on the previous row
cross_up_flags_not_above(rsi_ma, rsi_signal) ==
    LET prev_ma  == shift1(rsi_ma)
        prev_sig == shift1(rsi_signal)
    IN  Column([t \in 1..Len(rsi_ma) |->
                  Gt(rsi_ma[t], rsi_signal[t]) /\ ~Gt(prev_ma[t], prev_sig[t])])

\* lines 34-36
cross_up_flags(rsi_ma, rsi_signal) ==
    LET prev_ma  == shift1(rsi_ma)
        prev_sig == shift1(rsi_signal)
    IN  Column([t \in 1..Len(rsi_ma) |->
                  Gt(rsi_ma[t], rsi_signal[t]) /\ Le(prev_ma[t], prev_sig[t])])

\* faulty variant of cross_down_flags: first comparison copied from cross_up
cross_down_flags_copied(rsi_ma, rsi_signal) ==
    LET prev_ma  == shift1(rsi_ma)
        prev_sig == shift1(rsi_signal)
    IN  Column([t \in 1..Len(rsi_ma) |->
                  Gt(rsi_ma[t], rsi_signal[t]) /\ Ge(prev_ma[t], prev_sig[t])])

\* faulty variant of cross_down_flags: "at or below" instead of "below"
cross_down_flags_non_strict(rsi_ma, rsi_signal) ==
    LET prev_ma  == shift1(rsi_ma)
        prev_sig == shift1(rsi_signal)
    IN  Column([t \in 1..Len(rsi_ma) |->
                  Le(rsi_ma[t], rsi_signal[t]) /\ Ge(prev_ma[t], prev_sig[t])])

\* lines 37-39
cross_down_flags(rsi_ma, rsi_signal) ==
    LET prev_ma  == shift1(rsi_ma)
        prev_sig == shift1(rsi_signal)
    IN  Column([t \in 1..Len(rsi_ma) |->
                  Lt(rsi_ma[t], rsi_signal[t]) /\ Ge(prev_ma[t], prev_sig[t])])

compute_indicators(d, p) ==
    LET close  == Column([t \in 1..Len(d) |-> Num(d[t].Close)])
        ma     == ema(close, p.ma_length)
        rsi_ma == rsi(ma, p.rsi_length)
        rsi_signal == ema(rsi_ma, p.signal_length)
        up     == cross_up_flags(rsi_ma, rsi_signal)
        down   == cross_down_flags(rsi_ma, rsi_signal)
    IN  [t \in 1..Len(d) |->
            [date       |-> d[t].date,
             Open       |-> d[t].Open,
             Close      |-> d[t].Close,
             ma         |-> ma[t],
             rsi_ma     |-> rsi_ma[t],
             rsi_signal |-> rsi_signal[t],
             cross_up   |-> up[t],
             cross_down |-> down[t]]]

(* -------------------------- generate_trades ---------------------------- *)

\* Python's None for the entry locals
None == 0

\* faulty variant of fresh_locals: the position state of the previous call
\* survives, only the list is new
stale_locals ==
    [in_trade |-> in_trade, entry_price |-> entry_price,
     entry_date |-> entry_date, signal_date |-> signal_date, trades |-> <<>>,
     scanned |-> 0]

\* the locals as lines 55-61 initialise them; scanned counts loop iterations
fresh_locals ==
    [in_trade |-> FALSE, entry_price |-> None, entry_date |-> None,
     signal_date |-> None, trades |-> <<>>, scanned |-> 0]

\* faulty variant of enter: buys at the close, as simulate_band does
enter_at_close(s, row) ==
    [s EXCEPT !.in_trade = TRUE,
              !.signal_date = row.date,
              !.entry_date = row.date,
              !.entry_price = row.Close]

\* faulty variant of enter: entry_date is never assigned
enter_without_entry_date(s, row) ==
    [s EXCEPT !.in_trade = TRUE,
              !.signal_date = row.date,
              !.entry_price = row.Open]

\* lines 70-73 and 98-101: open a position on this row
enter(s, row) ==
    [s EXCEPT !.in_trade = TRUE,
              !.signal_date = row.date,
              !.entry_date = row.date,
              !.entry_price = row.Open]

\* (exit_price - entry_price) / entry_price * 100.0, and its short mirror
\* each intermediate float is one value, computed once
return_pct(from, to, base) ==
    CHOOSE pct \in {Mul(ratio, Num(100)) :
                     ratio \in {Div(delta, Num(base)) :
                                 delta \in {Sub(Num(to), Num(from))}}} : TRUE

\* the record lines 81-92 and 109-120 append
trade_record(s, dir, row, pct, pts) ==
    [signal_date |-> s.signal_date,
     entry_date  |-> s.entry_date,
     exit_date   |-> row.date,
     direction   |-> dir,
     entry_open  |-> s.entry_price,
     exit_close  |-> row.Close,
     return_pct  |-> pct,
     point_gain  |-> pts]

\* faulty variant of exit: in_trade is not reset
exit_stays_open(s, dir, row) ==
    LET pct == IF dir = "long"
               THEN return_pct(s.entry_price, row.Close, s.entry_price)
               ELSE return_pct(row.Close, s.entry_price, s.entry_price)
        pts == IF dir = "long"
               THEN row.Close - s.entry_price
               ELSE s.entry_price - row.Close
    IN  [s EXCEPT !.trades = Append(s.trades, trade_record(s, dir, row, pct, pts))]

\* faulty variant of exit: the short return uses the long formula
exit_short_as_long(s, dir, row) ==
    LET pct == return_pct(s.entry_price, row.Close, s.entry_price)
        pts == IF dir = "long"
               THEN row.Close - s.entry_price
               ELSE s.entry_price - row.Close
    IN  [s EXCEPT !.in_trade = FALSE,
                  !.trades = Append(s.trades, trade_record(s, dir, row, pct, pts))]

\* faulty variant of exit: the short points use the long formula
exit_points_as_long(s, dir, row) ==
    LET exit_price == row.Close
        pct == IF dir = "long"
               THEN return_pct(s.entry_price, exit_price, s.entry_price)
               ELSE return_pct(exit_price, s.entry_price, s.entry_price)
        pts == exit_price - s.entry_price
    IN  [s EXCEPT !.in_trade = FALSE,
                  !.trades = Append(s.trades, trade_record(s, dir, row, pct, pts))]

\* lines 76-93 and 104-121: close the position on this row, append the record
exit(s, dir, row) ==
    LET exit_price == row.Close
        pct == IF dir = "long"
               THEN return_pct(s.entry_price, exit_price, s.entry_price)
               ELSE return_pct(exit_price, s.entry_price, s.entry_price)
        pts == IF dir = "long"
               THEN exit_price - s.entry_price
               ELSE s.entry_price - exit_price
    IN  [s EXCEPT !.in_trade = FALSE,
                  !.trades = Append(s.trades, trade_record(s, dir, row, pct, pts))]

\* faulty variant of long_block: entry is not limited to the flat state
long_block_reenters(s, dir, row) ==
    IF dir = "long"
    THEN IF row.cross_up THEN enter(s, row)
         ELSE IF s.in_trade /\ row.cross_down THEN exit(s, dir, row)
         ELSE s
    ELSE s

\* lines 68-93
long_block(s, dir, row) ==
    IF dir = "long"
    THEN IF ~s.in_trade /\ row.cross_up THEN enter(s, row)
         ELSE IF s.in_trade /\ row.cross_down THEN exit(s, dir, row)
         ELSE s
    ELSE s

\* faulty variant of short_block: exit test copied from the long block
short_block_copied_exit(s, dir, row) ==
    IF dir = "short"
    THEN IF ~s.in_trade /\ row.cross_down THEN enter(s, row)
         ELSE IF s.in_trade /\ row.cross_down THEN exit(s, dir, row)
         ELSE s
    ELSE s

\* lines 96-121
short_block(s, dir, row) ==
    IF dir = "short"
    THEN IF ~s.in_trade /\ row.cross_down THEN enter(s, row)
         ELSE IF s.in_trade /\ row.cross_up THEN exit(s, dir, row)
         ELSE s
    ELSE s

\* one iteration of the loop of line 63
loop_body(s, dir, row) == short_block(long_block(s, dir, row), dir, row)

\* first row the loop visits: range(1, len(df)) skips row 0 (row 1 here)
FirstRow == 2

\* faulty variant of scan: a position still open after the last row is
\* closed on it and reported
RECURSIVE scan_force_close(_, _, _, _)
scan_force_close(s, dir, rows, i) ==
    IF i > Len(rows)
    THEN IF s.in_trade THEN exit(s, dir, rows[Len(rows)]) ELSE s
    ELSE scan_force_close(
             [loop_body(s, dir, rows[i]) EXCEPT !.scanned = @ + 1],
             dir, rows, i + 1)

\* the loop from row i to the last row
RECURSIVE scan(_, _, _, _)
scan(s, dir, rows, i) ==
    IF i > Len(rows) THEN s
    ELSE scan([loop_body(s, dir, rows[i]) EXCEPT !.scanned = @ + 1],
              dir, rows, i + 1)

(* ---------------------------- the program ------------------------------ *)

\* main calls generate_trades twice on the table compute_indicators returned
CallsPerRun == 2

\* trading-day calendar: five sessions, then a weekend
DateOf(i) == i + 2 * ((i - 1) \div 5)

Init ==
    /\ \E n \in 0..MaxLen : \E close \in [1..n -> PriceSet] :
       \E g \in (-MaxGap)..MaxGap :
          df = [i \in 1..n |->
                  [date  |-> DateOf(i),
                   Open  |-> (IF i = 1 THEN close[1] ELSE close[i - 1]) + g,
                   Close |-> close[i]]]
    /\ params \in ParamSets
    /\ df_ind = <<>>
    /\ pc = "loaded"
    /\ direction = "long"
    /\ in_trade = FALSE
    /\ entry_price = None
    /\ entry_date = None
    /\ signal_date = None
    /\ trades = <<>>
    /\ scanned = 0
    /\ results = <<>>
    /\ band = <<>>
    /\ sweep = <<>>
    /\ idx = 0
    /\ csv_exists = TRUE
    /\ csv_file = <<>>
    /\ today = 0
    /\ feed = <<>>

\* main, lines 64-73 of backtest_nifty_rsi_oma.py
ComputeIndicators ==
    /\ pc = "loaded"
    /\ df_ind' = compute_indicators(df, params)
    /\ pc' = "ready"
    /\ UNCHANGED <<df, params, results>>
    /\ UNCHANGED locals
    /\ UNCHANGED <<band_vars, oracle_vars, download_vars>>

\* one call generate_trades(df_ind, direction=dir), start to return
GenerateTrades(dir) ==
    /\ pc = "ready"
    /\ Len(results) < CallsPerRun
    /\ LET s == scan(fresh_locals, dir, df_ind, FirstRow)
       IN  /\ direction' = dir
           /\ in_trade' = s.in_trade
           /\ entry_price' = s.entry_price
           /\ entry_date' = s.entry_date
           /\ signal_date' = s.signal_date
           /\ trades' = s.trades
           /\ scanned' = s.scanned
           /\ results' = Append(results, [direction |-> dir, trades |-> s.trades])
    /\ UNCHANGED <<df, params, df_ind, pc>>
    /\ UNCHANGED <<band_vars, oracle_vars, download_vars>>

Next ==
    \/ ComputeIndicators
    \/ \E dir \in Directions : GenerateTrades(dir)

Spec == Init /\ [][Next]_vars

(* ------------------------------ claims --------------------------------- *)

Rows == 1..Len(df_ind)
HasBar(date) == \E i \in Rows : df_ind[i].date = date
BarOf(date) == CHOOSE i \in Rows : df_ind[i].date = date

Supported == {"long", "short"}
EntryFlag(dir, i) == IF dir = "long" THEN df_ind[i].cross_up ELSE df_ind[i].cross_down
ExitFlag(dir, i) == IF dir = "long" THEN df_ind[i].cross_down ELSE df_ind[i].cross_up

\* every trade of every returned list satisfies P(direction of the call, trade)
EveryTrade(P(_, _)) ==
    \A k \in 1..Len(results) : \A j \in 1..Len(results[k].trades) :
        P(results[k].direction, results[k].trades[j])
SomeTrade(P(_, _)) ==
    \E k \in 1..Len(results) : \E j \in 1..Len(results[k].trades) :
        P(results[k].direction, results[k].trades[j])

\* the FLAT/OPEN machine of the design, run over rows 1..i: TRUE when OPEN
RECURSIVE PositionAfter(_, _)
PositionAfter(dir, i) ==
    IF i = 0 THEN FALSE
    ELSE IF PositionAfter(dir, i - 1) THEN ~ExitFlag(dir, i) ELSE EntryFlag(dir, i)

\* rows on which that machine goes from OPEN to FLAT
ExitTransitions(dir) ==
    {i \in Rows : PositionAfter(dir, i - 1) /\ ~PositionAfter(dir, i)}

\* C1: in every returned list the trades are in ascending entry_date order
\* and consecutive trades do not overlap: exit_date[j] <= entry_date[j+1].
C1_NonOverlapping ==
    \A k \in 1..Len(results) :
        LET t == results[k].trades
        IN  \A j \in 1..(Len(t) - 1) :
                /\ t[j].entry_date <= t[j + 1].entry_date
                /\ t[j].exit_date <= t[j + 1].entry_date

C1_Witness ==
    \E k \in 1..Len(results) :
        /\ Len(results[k].trades) >= 2
        /\ results[k].trades[1].exit_date < results[k].trades[2].entry_date

\* C2: a call returns one record per completed entry/exit pair: the list has
\* as many trades as exit transitions were taken, each on its own exit row,
\* and a position still open after the last row is not in the list.
C2_OnlyCompletedPairs ==
    (Len(results) > 0 /\ direction \in Supported) =>
        /\ results[Len(results)].trades = trades
        /\ Len(trades) = Cardinality(ExitTransitions(direction))
        /\ {trades[j].exit_date : j \in 1..Len(trades)} =
               {df_ind[i].date : i \in ExitTransitions(direction)}
        /\ in_trade = PositionAfter(direction, Len(df_ind))
        /\ in_trade =>
               \A j \in 1..Len(trades) :
                   /\ trades[j].signal_date # signal_date
                   /\ trades[j].exit_date < entry_date

C2_Witness ==
    /\ Len(results) > 0
    /\ direction \in Supported
    /\ in_trade
    /\ Len(trades) >= 1
    /\ scanned = Len(df_ind) - 1

\* C3 as stated: the entry price of every trade is the Open of the row that
\* follows the signal row.
C3_NextBarEntry ==
    EveryTrade(LAMBDA dir, t :
        /\ HasBar(t.signal_date)
        /\ BarOf(t.signal_date) + 1 \in Rows
        /\ t.entry_open = df_ind[BarOf(t.signal_date) + 1].Open)

\* C3 amended: the entry price of every trade is the Open of the signal row
\* itself, the row on which the entry flag fired, and entry_date is that
\* row's date.
C3_SignalBarEntry ==
    EveryTrade(LAMBDA dir, t :
        /\ HasBar(t.signal_date)
        /\ EntryFlag(dir, BarOf(t.signal_date))
        /\ t.entry_date = t.signal_date
        /\ t.entry_open = df_ind[BarOf(t.signal_date)].Open)

C3_Witness ==
    SomeTrade(LAMBDA dir, t :
        df_ind[BarOf(t.signal_date)].Open # df_ind[BarOf(t.signal_date) + 1].Open)

\* C4 as stated: no call with a direction other than long or short returns
\* a list, and none scans a row.
C4_UnsupportedDirectionRejected ==
    /\ \A k \in 1..Len(results) : results[k].direction \in Supported
    /\ (Len(results) > 0 /\ direction \notin Supported) => scanned = 0

\* C5: in the table compute_indicators returns, cross_up and cross_down are
\* never both true on a row, and both are false on the first row.
C5_FlagsExclusive ==
    pc = "ready" =>
        \A t \in Rows :
            /\ ~(df_ind[t].cross_up /\ df_ind[t].cross_down)
            /\ t = 1 => (~df_ind[t].cross_up /\ ~df_ind[t].cross_down)

C5_Witness ==
    /\ pc = "ready"
    /\ \E t \in Rows : df_ind[t].cross_up
    /\ \E t \in Rows : df_ind[t].cross_down
    /\ \E t \in Rows : t > 1 /\ ~df_ind[t].cross_up /\ ~df_ind[t].cross_down

\* C6: with positive prices, a long trade has return_pct > 0 exactly when
\* exit price > entry price, a short trade exactly when exit price < entry
\* price.
C6_ReturnSign ==
    EveryTrade(LAMBDA dir, t :
        (t.entry_open > 0 /\ t.exit_close > 0) =>
            /\ t.direction = dir
            /\ dir = "long" =>
                   (Gt(t.return_pct, Num(0)) <=> t.exit_close > t.entry_open)
            /\ dir = "short" =>
                   (Gt(t.return_pct, Num(0)) <=> t.exit_close < t.entry_open))

C6_Witness ==
    /\ SomeTrade(LAMBDA dir, t : dir = "short" /\ t.exit_close > t.entry_open)
    /\ SomeTrade(LAMBDA dir, t : dir = "long" /\ t.exit_close > t.entry_open)

\* C7: every trade has signal_date <= entry_date <= exit_date, all three the
\* dates of rows of the table.
C7_DatesOrdered ==
    EveryTrade(LAMBDA dir, t :
        /\ t.signal_date <= t.entry_date
        /\ t.entry_date <= t.exit_date
        /\ HasBar(t.signal_date) /\ HasBar(t.entry_date) /\ HasBar(t.exit_date))

C7_Witness ==
    SomeTrade(LAMBDA dir, t :
        t.entry_date < t.exit_date /\ BarOf(t.exit_date) = Len(df_ind))

AllFlagsFalse == \A t \in Rows : ~df_ind[t].cross_up /\ ~df_ind[t].cross_down
NoTrades == \A k \in 1..Len(results) : results[k].trades = <<>>

\* C9 as stated: a table shorter than any one of ma_length, rsi_length,
\* signal_length has every flag false and yields no trade.
C9_ShorterThanAnyLength ==
    (/\ pc = "ready"
     /\ \/ Len(df) < params.ma_length
        \/ Len(df) < params.rsi_length
        \/ Len(df) < params.signal_length) =>
        AllFlagsFalse /\ NoTrades

\* C9 amended: an empty table, and any table with no more than rsi_length
\* rows, has every flag false and yields no trade.
C9_WithinRsiWarmup ==
    (pc = "ready" /\ Len(df) <= params.rsi_length) =>
        AllFlagsFalse /\ NoTrades

C9_Witness ==
    /\ pc = "ready"
    /\ Len(results) = 2
    /\ results[1].direction = "long" /\ results[2].direction = "short"
    /\ Len(df) = params.rsi_length
    /\ ~IsNaN(df_ind[Len(df)].rsi_ma)

\* C10: the exit row of every trade is the first row after the entry row on
\* which the opposite flag is true, and the exit price is that row's Close.
C10_ExitAtFirstOppositeFlag ==
    EveryTrade(LAMBDA dir, t :
        /\ HasBar(t.entry_date) /\ HasBar(t.exit_date)
        /\ BarOf(t.exit_date) > BarOf(t.entry_date)
        /\ ExitFlag(dir, BarOf(t.exit_date))
        /\ \A i \in (BarOf(t.entry_date) + 1)..(BarOf(t.exit_date) - 1) :
               ~ExitFlag(dir, i)
        /\ t.exit_close = df_ind[BarOf(t.exit_date)].Close)

C10_Witness ==
    SomeTrade(LAMBDA dir, t :
        /\ dir = "short"
        /\ BarOf(t.exit_date) > BarOf(t.entry_date) + 1
        /\ df_ind[BarOf(t.exit_date)].Close # df_ind[BarOf(t.exit_date)].Open)

(* ------------------- the backtest's "robust" settings ------------------ *)

\* backtest main passes these to compute_indicators, which accepts them
\* (lines 22-25) and never reads them
trend_length == 50
rsi_upper == 80
rsi_lower == 20

\* the trend moving average the settings describe: the simple moving average
\* of Close over trend_length rows, undefined for the first trend_length - 1
trend_ma ==
    rolling_mean(Column([t \in Rows |-> Num(df_ind[t].Close)]), trend_length)

\* C11 as stated: every long trade has a signal row with rsi_ma < rsi_lower
\* and Close above the trend moving average, every short trade a signal row
\* with rsi_ma > rsi_upper and Close below it.
C11_RobustEntriesOnly ==
    EveryTrade(LAMBDA dir, t :
        LET row == df_ind[BarOf(t.signal_date)]
            trend == trend_ma[BarOf(t.signal_date)]
        IN  IF dir = "long"
            THEN Lt(row.rsi_ma, Num(rsi_lower)) /\ Gt(Num(row.Close), trend)
            ELSE Gt(row.rsi_ma, Num(rsi_upper)) /\ Lt(Num(row.Close), trend))

\* the average loss of the window ending at each row of the ma column
ma_avg_loss ==
    avg_loss(Column([t \in Rows |-> df_ind[t].ma]), params.rsi_length)

\* C13 as stated: on every row whose window has an average loss of zero,
\* whatever the average gain, rsi_ma is 100.
C13_ZeroLossGives100 ==
    pc = "ready" =>
        \A t \in Rows : ma_avg_loss[t] = Num(0) => df_ind[t].rsi_ma = Num(100)

(* ------------------------------ load_data ------------------------------ *)

\* no indicator table, no scan, no sweep yet
NothingComputed ==
    /\ df_ind = <<>>
    /\ direction = "long"
    /\ in_trade = FALSE
    /\ entry_price = None
    /\ entry_date = None
    /\ signal_date = None
    /\ trades = <<>>
    /\ scanned = 0
    /\ results = <<>>
    /\ band = <<>>
    /\ sweep = <<>>
    /\ idx = 0

\* the parameter set used where the indicators play no part
SmallestParams ==
    CHOOSE p \in ParamSets :
        p.ma_length = 1 /\ p.rsi_length = 1 /\ p.signal_length = 2

\* rows of the CSV file a loader is given
MaxRows == 2

\* the text of a price cell: a number, or something that is not one
CellTexts == {"2", "abc"}
PriceColumns == {"Open", "High", "Low", "Close"}

\* the float a cell text parses to; NaN when it is not a number
\* (pd.to_numeric(errors="coerce"))
parse_float(text) == IF text = "2" THEN Num(2) ELSE NaN

\* a cell of an object column: the text itself
Str(text) == [k |-> "str", text |-> text]
IsNumeric(cell) == cell.k = "num"

\* pd.read_csv: a column whose cells are all numbers is a float column, any
\* other column keeps every cell as text
read_csv(file) ==
    LET numeric(c) == \A i \in 1..Len(file) : ~IsNaN(parse_float(file[i][c]))
        cell(i, c) == IF numeric(c) THEN parse_float(file[i][c])
                      ELSE Str(file[i][c])
    IN  [i \in 1..Len(file) |->
            [date |-> file[i].date, Open |-> cell(i, "Open"),
             High |-> cell(i, "High"), Low |-> cell(i, "Low"),
             Close |-> cell(i, "Close")]]

\* df.sort_values("date").reset_index(drop=True)
RECURSIVE sort_values(_)
sort_values(rows) ==
    IF rows = <<>> THEN <<>>
    ELSE LET first == CHOOSE i \in 1..Len(rows) :
                         \A j \in 1..Len(rows) : rows[i].date <= rows[j].date
             rest  == [j \in 1..(Len(rows) - 1) |->
                         IF j < first THEN rows[j] ELSE rows[j + 1]]
         IN  <<rows[first]>> \o sort_values(rest)

\* pd.to_numeric(df[c], errors="coerce") for the price columns
to_numeric(cell) == IF cell.k = "str" THEN parse_float(cell.text) ELSE cell
coerce_prices(rows) ==
    [i \in 1..Len(rows) |->
        [date |-> rows[i].date, Open |-> to_numeric(rows[i].Open),
         High |-> to_numeric(rows[i].High), Low |-> to_numeric(rows[i].Low),
         Close |-> to_numeric(rows[i].Close)]]

\* df.dropna(subset=["Close"]).reset_index(drop=True)
dropna_Close(rows) == SelectSeq(rows, LAMBDA r : ~IsNaN(r.Close))

\* load_data of build_webpage.py (fit_rsi_rule_to_oracle.py and
\* oracle_price_only.py load the same way)
load_data_webpage(file) == dropna_Close(coerce_prices(sort_values(read_csv(file))))

\* load_data of backtest_nifty_rsi_oma.py
load_data_backtest(file) == sort_values(read_csv(file))

\* the CSV files: up to MaxRows rows in any date order, any text in the cells
InitLoad ==
    /\ \E n \in 0..MaxRows :
       \E order \in {f \in [1..n -> 1..n] : \A a, b \in 1..n : f[a] = f[b] => a = b} :
       \E cells \in [1..n -> [PriceColumns -> CellTexts]] :
          csv_file = [i \in 1..n |->
                        [date |-> DateOf(order[i]), Open |-> cells[i]["Open"],
                         High |-> cells[i]["High"], Low |-> cells[i]["Low"],
                         Close |-> cells[i]["Close"]]]
    /\ df = <<>>
    /\ params = SmallestParams
    /\ pc = "file"
    /\ csv_exists = TRUE
    /\ today = 0
    /\ feed = <<>>
    /\ NothingComputed

\* df = load_data() in build_webpage main, line 506
LoadDataWebpage ==
    /\ pc = "file"
    /\ df' = load_data_webpage(csv_file)
    /\ pc' = "loaded by build_webpage"
    /\ UNCHANGED <<params, df_ind, results, locals>>
    /\ UNCHANGED <<band_vars, oracle_vars, download_vars>>

\* df = load_data() in backtest main, line 62
LoadDataBacktest ==
    /\ pc = "file"
    /\ df' = load_data_backtest(csv_file)
    /\ pc' = "loaded by backtest"
    /\ UNCHANGED <<params, df_ind, results, locals>>
    /\ UNCHANGED <<band_vars, oracle_vars, download_vars>>

NextLoad == LoadDataWebpage \/ LoadDataBacktest

SpecLoad == InitLoad /\ [][NextLoad]_vars

\* the rows of the file whose four price cells are all numbers
GoodDates ==
    {csv_file[i].date : i \in {j \in 1..Len(csv_file) :
        \A c \in PriceColumns : ~IsNaN(parse_float(csv_file[j][c]))}}

\* C12 as stated: the loaded table has no row with a non-numeric Open, High,
\* Low or Close cell; it holds exactly the rows of the file whose four price
\* cells are numbers.
C12_BadRowsExcluded ==
    pc \in {"loaded by build_webpage", "loaded by backtest"} =>
        /\ \A i \in 1..Len(df) : \A c \in PriceColumns : IsNumeric(df[i][c])
        /\ {df[i].date : i \in 1..Len(df)} = GoodDates

(* ----------------------- strictly rising closes ------------------------ *)

\* closes of a table that rises on every row, by steps of any size
RisingPrices == (MaxGap + 1)..(MaxGap + MaxLen + MaxPrice)
StrictlyIncreasing(d) == \A i \in 1..(Len(d) - 1) : d[i].Close < d[i + 1].Close

\* the program started on a strictly rising table
InitRising ==
    /\ \E n \in 0..MaxLen : \E close \in [1..n -> RisingPrices] :
       \E g \in (-MaxGap)..MaxGap :
          /\ \A i \in 1..(n - 1) : close[i] < close[i + 1]
          /\ df = [i \in 1..n |->
                     [date  |-> DateOf(i),
                      Open  |-> (IF i = 1 THEN close[1] ELSE close[i - 1]) + g,
                      Close |-> close[i]]]
    /\ params \in ParamSets
    /\ pc = "loaded"
    /\ csv_exists = TRUE
    /\ csv_file = <<>>
    /\ today = 0
    /\ feed = <<>>
    /\ NothingComputed

SpecRising == InitRising /\ [][Next]_vars

\* C14: on a table whose closes rise strictly, cross_down is false on every
\* row and every generate_trades(direction="long") call returns no trade.
C14_RisingNeverExits ==
    (pc = "ready" /\ StrictlyIncreasing(df)) =>
        /\ \A t \in Rows : ~df_ind[t].cross_down
        /\ \A k \in 1..Len(results) :
              results[k].direction = "long" => results[k].trades = <<>>

\* a rising table of four rows or more with steps of different sizes, RSI
\* defined on some row, and a long call that has returned
C14_Witness ==
    /\ pc = "ready"
    /\ StrictlyIncreasing(df)
    /\ Len(df) >= 4
    /\ \E i, j \in 1..(Len(df) - 1) :
          df[i + 1].Close - df[i].Close # df[j + 1].Close - df[j].Close
    /\ \E t \in Rows : df_ind[t].rsi_ma = Num(100)
    /\ \E k \in 1..Len(results) : results[k].direction = "long"

(* --------------- simulate_band (fit_rsi_rule_to_oracle.py) ------------- *)

\* faulty variant of band_locals: the position state of the previous call
\* survives, only the list is new
band_locals_stale ==
    [in_trade |-> in_trade, entry_price |-> entry_price,
     entry_date |-> entry_date, trades |-> <<>>]

\* lines 36-40
band_locals ==
    [in_trade |-> FALSE, entry_price |-> None, entry_date |-> None,
     trades |-> <<>>]

\* lines 47-49: buy at the row's Close
band_enter(s, row) ==
    [s EXCEPT !.in_trade = TRUE,
              !.entry_price = row.Close,
              !.entry_date = row.date]

\* lines 52-67: sell at the row's Close and count the trade
band_exit(s, row) ==
    LET exit_price == row.Close
        pts == exit_price - s.entry_price
        pct == return_pct(s.entry_price, exit_price, s.entry_price)
    IN  [s EXCEPT !.trades = Append(s.trades,
                      [entry_date |-> s.entry_date,
                       exit_date  |-> row.date,
                       entry_open |-> s.entry_price,
                       exit_close |-> exit_price,
                       point_gain |-> pts,
                       return_pct |-> pct]),
                  !.in_trade = FALSE]

\* faulty variant of band_body: any cross_up opens a position
band_body_any_cross_up(s, low, high, row) ==
    IF ~s.in_trade
    THEN IF row.cross_up THEN band_enter(s, row) ELSE s
    ELSE IF row.cross_down THEN band_exit(s, row) ELSE s

\* faulty variant of band_body: the band's upper edge is left out
band_body_below_high(s, low, high, row) ==
    IF ~s.in_trade
    THEN IF row.cross_up /\ Le(Num(low), row.rsi_ma) /\ Lt(row.rsi_ma, Num(high))
         THEN band_enter(s, row) ELSE s
    ELSE IF row.cross_down THEN band_exit(s, row) ELSE s

\* lines 45-67
band_body(s, low, high, row) ==
    IF ~s.in_trade
    THEN IF row.cross_up /\ Le(Num(low), row.rsi_ma) /\ Le(row.rsi_ma, Num(high))
         THEN band_enter(s, row) ELSE s
    ELSE IF row.cross_down THEN band_exit(s, row) ELSE s

\* line 42: for i in range(1, len(df_ind))
RECURSIVE band_scan(_, _, _, _, _)
band_scan(s, low, high, rows, i) ==
    IF i > Len(rows) THEN s
    ELSE band_scan(band_body(s, low, high, rows[i]), low, high, rows, i + 1)

\* df_tr[column].sum()
RECURSIVE column_sum(_)
column_sum(values) ==
    IF values = <<>> THEN Num(0)
    ELSE Add(Head(values), column_sum(Tail(values)))

\* lines 69-80
band_stats(list) ==
    [points  |-> column_sum([j \in 1..Len(list) |-> Num(list[j].point_gain)]),
     pct_sum |-> column_sum([j \in 1..Len(list) |-> list[j].return_pct]),
     trades  |-> Len(list)]

\* the bands tried: the whole range, and grid bands with an edge at 50
Bands == {<<0, 100>>, <<10, 50>>, <<50, 60>>, <<55, 85>>}

\* stats = simulate_band(df_ind, low, high), start to return
SimulateBand(low, high) ==
    /\ pc = "ready"
    /\ LET s == band_scan(band_locals, low, high, df_ind, FirstRow)
       IN  /\ in_trade' = s.in_trade
           /\ entry_price' = s.entry_price
           /\ entry_date' = s.entry_date
           /\ trades' = s.trades
           /\ band' = <<[low |-> low, high |-> high,
                         stats |-> band_stats(s.trades)]>>
    /\ UNCHANGED <<df, params, df_ind, pc, direction, signal_date, scanned, results>>
    /\ UNCHANGED <<sweep, oracle_vars, download_vars>>

NextBand ==
    \/ ComputeIndicators
    \/ \E b \in Bands : SimulateBand(b[1], b[2])

SpecBand == Init /\ [][NextBand]_vars

\* row i passes the entry test of the band last tried
InBand(i) ==
    /\ Le(Num(band[1].low), df_ind[i].rsi_ma)
    /\ Le(df_ind[i].rsi_ma, Num(band[1].high))

\* C15: every trade simulate_band counted was entered at the Close of a row
\* with cross_up true and low <= rsi_ma <= high, and left at the Close of the
\* first later row with cross_down true; a cross_up row whose rsi_ma is
\* outside the band is the entry row of no position.
C15_BandedEntries ==
    band # <<>> =>
        /\ band[1].stats.trades = Len(trades)
        /\ \A j \in 1..Len(trades) :
              LET e == BarOf(trades[j].entry_date)
                  x == BarOf(trades[j].exit_date)
              IN  /\ df_ind[e].cross_up /\ InBand(e)
                  /\ trades[j].entry_open = df_ind[e].Close
                  /\ e < x
                  /\ df_ind[x].cross_down
                  /\ \A i \in (e + 1)..(x - 1) : ~df_ind[i].cross_down
                  /\ trades[j].exit_close = df_ind[x].Close
        /\ \A i \in Rows : (df_ind[i].cross_up /\ ~InBand(i)) =>
              /\ \A j \in 1..Len(trades) : trades[j].entry_date # df_ind[i].date
              /\ ~(in_trade /\ entry_date = df_ind[i].date)

\* a call that counted a trade entered on the band's edge and skipped a
\* cross_up row outside the band
C15_Witness ==
    /\ band # <<>>
    /\ \E j \in 1..Len(trades) :
          df_ind[BarOf(trades[j].entry_date)].rsi_ma \in
              {Num(band[1].low), Num(band[1].high)}
    /\ \E i \in Rows : df_ind[i].cross_up /\ ~InBand(i)

(* ------------- build_oracle_trades (oracle_price_only.py) -------------- *)

\* prices[i] and dates[i] of lines 48-49, i counted from 0 as the code does
prices(d, i) == d[i + 1].Close
dates(d, i) == d[i + 1].date

\* lines 57-58: while i < n - 1 and prices[i + 1] <= prices[i]: i += 1
RECURSIVE find_valley(_, _)
find_valley(d, i) ==
    IF i < Len(d) - 1 /\ prices(d, i + 1) <= prices(d, i)
    THEN find_valley(d, i + 1) ELSE i

\* faulty variant of find_peak: sells on the row after the buy
find_peak_next_row(d, i) == i

\* lines 70-71: while i < n and i < n - 1 and prices[i + 1] >= prices[i]: i += 1
RECURSIVE find_peak(_, _)
find_peak(d, i) ==
    IF i < Len(d) /\ i < Len(d) - 1 /\ prices(d, i + 1) >= prices(d, i)
    THEN find_peak(d, i + 1) ELSE i

\* faulty variant of oracle_trade: exit_date copied from the entry
oracle_trade_exit_at_entry(d, buy_idx, sell_idx) ==
    [signal_date |-> dates(d, buy_idx),
     entry_date  |-> dates(d, buy_idx),
     exit_date   |-> dates(d, buy_idx),
     direction   |-> "long",
     entry_open  |-> prices(d, buy_idx),
     exit_close  |-> prices(d, sell_idx),
     point_gain  |-> prices(d, sell_idx) - prices(d, buy_idx),
     return_pct  |-> return_pct(prices(d, buy_idx), prices(d, sell_idx),
                                prices(d, buy_idx))]

\* lines 78-92: the record of one valley -> peak trade
oracle_trade(d, buy_idx, sell_idx) ==
    [signal_date |-> dates(d, buy_idx),
     entry_date  |-> dates(d, buy_idx),
     exit_date   |-> dates(d, sell_idx),
     direction   |-> "long",
     entry_open  |-> prices(d, buy_idx),
     exit_close  |-> prices(d, sell_idx),
     point_gain  |-> prices(d, sell_idx) - prices(d, buy_idx),
     return_pct  |-> return_pct(prices(d, buy_idx), prices(d, sell_idx),
                                prices(d, buy_idx))]

\* faulty variant of oracle_iteration: the next pass starts at the valley again
oracle_iteration_back_to_valley(d, i, list) ==
    LET buy_idx  == find_valley(d, i)
        sell_idx == find_peak(d, buy_idx + 1)
    IN  IF buy_idx >= Len(d) - 1
        THEN [i |-> buy_idx, trades |-> list, stopped |-> TRUE]
        ELSE [i |-> buy_idx,
              trades |-> IF /\ sell_idx > buy_idx
                            /\ prices(d, sell_idx) > prices(d, buy_idx)
                         THEN Append(list, oracle_trade(d, buy_idx, sell_idx))
                         ELSE list,
              stopped |-> FALSE]

\* one pass of the outer while loop, lines 56-94, from scan index i with the
\* list so far; stopped is the break of line 65
oracle_iteration(d, i, list) ==
    LET buy_idx  == find_valley(d, i)
        sell_idx == find_peak(d, buy_idx + 1)
    IN  IF buy_idx >= Len(d) - 1
        THEN [i |-> buy_idx, trades |-> list, stopped |-> TRUE]
        ELSE [i |-> sell_idx + 1,
              trades |-> IF /\ sell_idx > buy_idx
                            /\ prices(d, sell_idx) > prices(d, buy_idx)
                         THEN Append(list, oracle_trade(d, buy_idx, sell_idx))
                         ELSE list,
              stopped |-> FALSE]

\* build_oracle_trades called on a loaded table: lines 51-53
\* closes of the oracle's tables: one level more than PriceSet, so that a
\* rise or a fall can last two rows
OraclePrices == (MaxGap + 1)..(MaxGap + MaxPrice + 1)

InitOracle ==
    /\ \E n \in 0..MaxLen : \E close \in [1..n -> OraclePrices] :
          df = [t \in 1..n |->
                  [date  |-> DateOf(t),
                   Open  |-> IF t = 1 THEN close[1] ELSE close[t - 1],
                   Close |-> close[t]]]
    /\ params = SmallestParams
    /\ pc = "oracle scan"
    /\ csv_exists = TRUE
    /\ csv_file = <<>>
    /\ today = 0
    /\ feed = <<>>
    /\ NothingComputed

\* one pass of the outer loop (line 55 true)
OracleIteration ==
    /\ pc = "oracle scan"
    /\ idx < Len(df) - 1
    /\ LET s == oracle_iteration(df, idx, trades)
       IN  /\ idx' = s.i
           /\ trades' = s.trades
           /\ pc' = IF s.stopped THEN "oracle returned" ELSE pc
    /\ UNCHANGED <<df, params, df_ind, direction, in_trade, entry_price,
                   entry_date, signal_date, scanned, results>>
    /\ UNCHANGED <<band_vars, download_vars>>

\* line 55 false: return pd.DataFrame(trades), line 96
OracleReturn ==
    /\ pc = "oracle scan"
    /\ ~(idx < Len(df) - 1)
    /\ pc' = "oracle returned"
    /\ UNCHANGED <<df, params, df_ind, results, locals>>
    /\ UNCHANGED <<band_vars, oracle_vars, download_vars>>

NextOracle == OracleIteration \/ OracleReturn

SpecOracle == InitOracle /\ [][NextOracle]_vars

\* the row of the loaded table with this date
RowOf(date) == CHOOSE i \in 1..Len(df) : df[i].date = date

\* C16: every oracle trade buys at one row's close and sells at a strictly
\* later row's strictly higher close, and each trade's entry row comes after
\* the previous trade's exit row.
C16_OracleTradesDisjoint ==
    pc \in {"oracle scan", "oracle returned"} =>
        \A j \in 1..Len(trades) :
            LET t == trades[j]
            IN  /\ t.entry_open = df[RowOf(t.entry_date)].Close
                /\ t.exit_close = df[RowOf(t.exit_date)].Close
                /\ t.exit_close > t.entry_open
                /\ t.exit_date > t.entry_date
                /\ j > 1 => t.entry_date > trades[j - 1].exit_date

\* the oracle has returned two trades or more, one of them held across a
\* row with an unchanged close
C16_Witness ==
    /\ pc = "oracle returned"
    /\ Len(trades) >= 2
    /\ \E j \in 1..Len(trades) :
          \E i \in RowOf(trades[j].entry_date)..(RowOf(trades[j].exit_date) - 1) :
              df[i].Close = df[i + 1].Close

(* ------------ download_nifty_incremental (download_nifty.py) ----------- *)

\* lines 6-11
CANDIDATE_SYMBOLS == <<"^NSEI", "^NIFTY", "^NSEBANK", "NIFTYBEES.NS">>

\* days are counted from dt.date(2000, 1, 1), line 45
FirstDay == 1
\* the last day a run can happen on
MaxDay == 3

\* the rows yfinance returns for a set of days: ascending, one per day
RECURSIVE daily_rows(_, _)
daily_rows(days, symbol) ==
    IF days = {} THEN <<>>
    ELSE LET first == CHOOSE d \in days : \A e \in days : d <= e
         IN  <<[Date |-> first, symbol |-> symbol]>>
                 \o daily_rows(days \ {first}, symbol)

\* lines 38-46: where the fetch starts
start_date(exists, file) ==
    IF exists
    THEN LET last_date == CHOOSE d \in {file[i].Date : i \in 1..Len(file)} :
                              \A i \in 1..Len(file) : file[i].Date <= d
         IN  last_date + 1
    ELSE FirstDay

\* lines 54-60: the first response that has rows; <<>> when none has
first_data(responses) ==
    LET with_rows == {k \in 1..Len(responses) : responses[k] # <<>>}
    IN  IF with_rows = {} THEN <<>>
        ELSE responses[CHOOSE k \in with_rows : \A j \in with_rows : k <= j]

\* drop_duplicates(subset=["Date"]): the first row of each date stays
drop_duplicates(rows) ==
    LET keep == {i \in 1..Len(rows) : \A j \in 1..(i - 1) : rows[j].Date # rows[i].Date}
        RECURSIVE pick(_)
        pick(i) == IF i > Len(rows) THEN <<>>
                   ELSE (IF i \in keep THEN <<rows[i]>> ELSE <<>>) \o pick(i + 1)
    IN  pick(1)

\* sort_values("Date").reset_index(drop=True)
RECURSIVE sort_by_Date(_)
sort_by_Date(rows) ==
    IF rows = <<>> THEN <<>>
    ELSE LET first == CHOOSE i \in 1..Len(rows) :
                         \A j \in 1..Len(rows) : rows[i].Date <= rows[j].Date
             rest  == [j \in 1..(Len(rows) - 1) |->
                         IF j < first THEN rows[j] ELSE rows[j + 1]]
         IN  <<rows[first]>> \o sort_by_Date(rest)

\* faulty variant of merge: the merged rows are not sorted
merge_unsorted(exists, file, df_new) ==
    IF exists THEN drop_duplicates(file \o df_new)
    ELSE sort_by_Date(df_new)

\* lines 93-101: df_all
merge(exists, file, df_new) ==
    IF exists THEN sort_by_Date(drop_duplicates(file \o df_new))
    ELSE sort_by_Date(df_new)

\* faulty variant of download_nifty_incremental: the "everything failed"
\* returns of lines 63-74 are missing
download_always_saves(exists, file, now, responses) ==
    IF start_date(exists, file) > now
    THEN [exists |-> exists, file |-> file, outcome |-> "no new dates"]
    ELSE [exists |-> TRUE, file |-> merge(exists, file, first_data(responses)),
          outcome |-> "saved"]

\* download_nifty_incremental run on day now, the try_download calls it makes
\* answered by responses: the file it leaves and the way it returned
download_nifty_incremental(exists, file, now, responses) ==
    IF start_date(exists, file) > now
    THEN [exists |-> exists, file |-> file, outcome |-> "no new dates"]
    ELSE LET df_new == first_data(responses)
         IN  IF df_new = <<>>
             THEN [exists |-> exists, file |-> file, outcome |-> "all failed"]
             ELSE [exists |-> TRUE, file |-> merge(exists, file, df_new),
                   outcome |-> "saved"]

\* what the try_download calls of one run can return when asked for the days
\* from..to: symbols are tried in order until one has rows (line 60), so
\* either the k-th is the first with rows, or all of them have none
Feeds(from, to) ==
    {[j \in 1..k |-> IF j < k THEN <<>> ELSE daily_rows(days, CANDIDATE_SYMBOLS[k])] :
        k \in 1..Len(CANDIDATE_SYMBOLS), days \in (SUBSET (from..to)) \ {{}}}
    \cup {[j \in 1..Len(CANDIDATE_SYMBOLS) |-> <<>>]}

\* before the first run: no CSV, or a historical CSV copied into data/raw,
\* whose rows come in any order and may repeat a date
InitDownload ==
    /\ \/ csv_exists = FALSE /\ csv_file = <<>>
       \/ /\ csv_exists = TRUE
          /\ \E n \in 1..MaxRows : \E day \in [1..n -> FirstDay..(MaxDay - 1)] :
                csv_file = [i \in 1..n |->
                              [Date |-> day[i], symbol |-> CANDIDATE_SYMBOLS[1]]]
    /\ today = FirstDay - 1
    /\ feed = <<>>
    /\ df = <<>>
    /\ params = SmallestParams
    /\ pc = "not run"
    /\ NothingComputed

\* one run of download_nifty_incremental, on the same day as the last run or
\* on a later one
Download(now) ==
    /\ now >= today
    /\ \E responses \in IF start_date(csv_exists, csv_file) > now THEN {<<>>}
                        ELSE Feeds(start_date(csv_exists, csv_file), now) :
          LET r == download_nifty_incremental(csv_exists, csv_file, now, responses)
          IN  /\ csv_exists' = r.exists
              /\ csv_file' = r.file
              /\ pc' = r.outcome
              /\ feed' = responses
    /\ today' = now
    /\ UNCHANGED <<df, params, df_ind, results, locals>>
    /\ UNCHANGED <<band_vars, oracle_vars>>

NextDownload == \E now \in FirstDay..MaxDay : Download(now)

SpecDownload == InitDownload /\ [][NextDownload]_vars

\* C17: a run in which every symbol tried returns no data, or for which there
\* are no new dates, leaves the CSV as it was: unchanged when it existed, not
\* created when it did not.
C17_FailedRunKeepsCsv ==
    [][(\/ (feed' # <<>> /\ \A k \in 1..Len(feed') : feed'[k] = <<>>)
        \/ pc' = "no new dates")
       => (csv_exists' = csv_exists /\ csv_file' = csv_file)]_vars

\* after a run that saved rows, a later run in which all four symbols
\* returned nothing has ended
C17_Witness ==
    /\ pc = "all failed"
    /\ Len(feed) = Len(CANDIDATE_SYMBOLS)
    /\ csv_exists
    /\ \E i \in 1..Len(csv_file) : csv_file[i].symbol # CANDIDATE_SYMBOLS[1]

(* ------------------- generate_trades: further claims ------------------- *)

\* row s is the earliest row after row prev with the entry flag of dir true
EarliestEntryAfter(dir, prev, s) ==
    /\ s > prev
    /\ EntryFlag(dir, s)
    /\ \A i \in (prev + 1)..(s - 1) : ~EntryFlag(dir, i)

\* C18: the signal row of every trade is the earliest row after the previous
\* trade's exit row (the start of the table for the first trade) with the
\* direction's entry flag true, and entry_date and entry price are that
\* row's; the same holds for a position still open when the scan ends, so
\* entry flags on later rows of an open position change nothing.
C18_EarliestEntryFlag ==
    /\ \A k \in 1..Len(results) : \A j \in 1..Len(results[k].trades) :
          LET list == results[k].trades
              prev == IF j = 1 THEN 0 ELSE BarOf(list[j - 1].exit_date)
              s    == BarOf(list[j].signal_date)
          IN  /\ EarliestEntryAfter(results[k].direction, prev, s)
              /\ list[j].entry_date = list[j].signal_date
              /\ list[j].entry_open = df_ind[s].Open
    /\ (results # <<>> /\ in_trade) =>
          LET prev == IF trades = <<>> THEN 0
                      ELSE BarOf(trades[Len(trades)].exit_date)
              s    == BarOf(signal_date)
          IN  /\ EarliestEntryAfter(direction, prev, s)
              /\ entry_date = signal_date
              /\ entry_price = df_ind[s].Open

\* a call ended with a position open on whose later rows the entry flag
\* fired again
C18_Witness ==
    /\ results # <<>>
    /\ in_trade
    /\ \E i \in Rows : i > BarOf(signal_date) /\ EntryFlag(direction, i)

\* C19: point_gain is exit price - entry price for a long trade and entry
\* price - exit price for a short one, return_pct is point_gain / entry
\* price * 100, and the two have the same sign.
C19_PointsAndPercent ==
    EveryTrade(LAMBDA dir, t :
        /\ t.point_gain = IF dir = "long" THEN t.exit_close - t.entry_open
                          ELSE t.entry_open - t.exit_close
        /\ t.return_pct = Mul(Div(Num(t.point_gain), Num(t.entry_open)), Num(100))
        /\ Sign(t.return_pct) = Sign(Num(t.point_gain)))

\* a long call and a short call have returned, with a winning long trade
\* and a losing short trade
C19_Witness ==
    /\ SomeTrade(LAMBDA dir, t : dir = "long" /\ t.point_gain > 0)
    /\ SomeTrade(LAMBDA dir, t : dir = "short" /\ t.point_gain < 0)

\* rsi_ma or rsi_signal is undefined on row t
Undefined(t) == IsNaN(df_ind[t].rsi_ma) \/ IsNaN(df_ind[t].rsi_signal)

\* C20: on every row where rsi_ma or rsi_signal is undefined, or where it is
\* undefined on the previous row (the first row has none), cross_up and
\* cross_down are both false; no trade has its signal row among the first
\* rsi_length rows.
C20_WarmupFlagsFalse ==
    /\ \A t \in Rows :
          (Undefined(t) \/ t = 1 \/ Undefined(t - 1)) =>
              (~df_ind[t].cross_up /\ ~df_ind[t].cross_down)
    /\ EveryTrade(LAMBDA dir, t : BarOf(t.signal_date) > params.rsi_length)

\* rsi_ma is undefined on a row past the warm-up, above rsi_signal on the
\* next row, and a call has returned a trade
C20_Witness ==
    /\ \E t \in Rows :
          /\ t > params.rsi_length + 1
          /\ IsNaN(df_ind[t - 1].rsi_ma)
          /\ Gt(df_ind[t].rsi_ma, df_ind[t].rsi_signal)
    /\ SomeTrade(LAMBDA dir, t : TRUE)

(* ------------- the band sweep of fit_rsi_rule_to_oracle.py ------------- *)

\* simulate_band reads Close only, so the tables of a sweep open at the
\* previous close
InitSweep ==
    /\ \E n \in 0..MaxLen : \E close \in [1..n -> PriceSet] :
          df = [t \in 1..n |->
                  [date  |-> DateOf(t),
                   Open  |-> IF t = 1 THEN close[1] ELSE close[t - 1],
                   Close |-> close[t]]]
    /\ params \in ParamSets
    /\ pc = "loaded"
    /\ csv_exists = TRUE
    /\ csv_file = <<>>
    /\ today = 0
    /\ feed = <<>>
    /\ NothingComputed

\* the bands tried so far
Tried == {<<sweep[k].low, sweep[k].high>> : k \in 1..Len(sweep)}

\* main, lines 100-104: the next simulate_band call of the sweep; every band
\* is tried once, here in any order
SweepBand(low, high) ==
    /\ pc = "ready"
    /\ <<low, high>> \notin Tried
    /\ LET s == band_scan(band_locals, low, high, df_ind, FirstRow)
           call == [low |-> low, high |-> high, stats |-> band_stats(s.trades),
                    trades |-> s.trades]
       IN  /\ in_trade' = s.in_trade
           /\ entry_price' = s.entry_price
           /\ entry_date' = s.entry_date
           /\ trades' = s.trades
           /\ band' = <<[low |-> low, high |-> high, stats |-> call.stats]>>
           /\ sweep' = Append(sweep, call)
    /\ UNCHANGED <<df, params, df_ind, pc, direction, signal_date, scanned, results>>
    /\ UNCHANGED <<oracle_vars, download_vars>>

NextSweep ==
    \/ ComputeIndicators
    \/ \E b \in Bands : SweepBand(b[1], b[2])

SpecSweep == InitSweep /\ [][NextSweep]_vars

\* simulate_band(df_ind, low, high) run by itself on the indicator table
AloneRun(low, high) ==
    band_scan([in_trade |-> FALSE, entry_price |-> None, entry_date |-> None,
               trades |-> <<>>], low, high, df_ind, FirstRow)

RECURSIVE SumOfRises(_)
SumOfRises(t) ==
    IF t <= 1 THEN 0
    ELSE SumOfRises(t - 1)
            + (IF df[t].Close > df[t - 1].Close
               THEN df[t].Close - df[t - 1].Close ELSE 0)

\* the sum of point_gain over a list of trades
RECURSIVE TotalPoints(_)
TotalPoints(list) ==
    IF list = <<>> THEN 0 ELSE Head(list).point_gain + TotalPoints(Tail(list))

\* C22: when build_oracle_trades has returned, the sum of point_gain over
\* its trades equals the sum over the table of the positive differences
\* between consecutive closes.
C22_OracleCollectsEveryRise ==
    pc = "oracle returned" => TotalPoints(trades) = SumOfRises(Len(df))

\* the oracle has returned a trade that rose over two rows or more, and the
\* table also fell by more than one level somewhere
C22_Witness ==
    /\ pc = "oracle returned"
    /\ \E j \in 1..Len(trades) :
          RowOf(trades[j].exit_date) > RowOf(trades[j].entry_date) + 1
    /\ \E j \in 1..Len(trades) : trades[j].point_gain > 1
    /\ \E t \in 2..Len(df) : df[t].Close < df[t - 1].Close - 1

(* ------------- download_nifty_incremental: further claims -------------- *)

\* the dates of a CSV's rows
DatesIn(file) == {file[i].Date : i \in 1..Len(file)}

\* C23: the CSV a run has saved is sorted ascending by Date with no date
\* twice, and a run that saves keeps every date of the CSV it found.
C23_SavedCsvSortedKeepsDates ==
    /\ [](pc = "saved" =>
            \A i \in 1..(Len(csv_file) - 1) : csv_file[i].Date < csv_file[i + 1].Date)
    /\ [][pc' = "saved" => DatesIn(csv_file) \subseteq DatesIn(csv_file')]_vars

\* a run has merged new rows of another symbol into a CSV that had rows
C23_Witness ==
    /\ pc = "saved"
    /\ Len(csv_file) >= 3
    /\ \E i, j \in 1..Len(csv_file) :
          /\ csv_file[i].symbol = CANDIDATE_SYMBOLS[1]
          /\ csv_file[j].symbol # CANDIDATE_SYMBOLS[1]


(* ------------------ build_oracle_trades: termination ------------------- *)

\* the scheduler of a sequential Python loop: a pass that can run does run
SpecOracleFair == SpecOracle /\ WF_vars(NextOracle)

\* the indices a loop of lines 57-58 or 70-71 reads prices at, having tested
\* its condition at every index from..to: prices[j + 1] and prices[j] are
\* read only where j < n - 1 holds before them
loop_reads(d, from, to) ==
    UNION {{j, j + 1} : j \in {k \in from..to : k < Len(d) - 1}}

\* every index prices and dates are read at in one pass of the outer loop
\* that starts at scan index i: the valley loop, lines 60-61, and after
\* line 67 the peak loop and lines 73-74
oracle_reads(d, i) ==
    LET buy_idx  == find_valley(d, i)
        sell_idx == find_peak(d, buy_idx + 1)
    IN  loop_reads(d, i, buy_idx) \cup {buy_idx}
            \cup (IF buy_idx >= Len(d) - 1 THEN {}
                  ELSE loop_reads(d, buy_idx + 1, sell_idx) \cup {sell_idx})

\* C24: build_oracle_trades terminates on every finite close series, the
\* empty and the single-bar ones included: every pass of the outer loop
\* moves the scan index strictly forward, reads prices only at indices
\* within 0..n-1, and the function eventually returns.
C24_OracleTerminates ==
    /\ [][(pc = "oracle scan" /\ idx < Len(df) - 1) =>
              /\ idx' > idx
              /\ idx' <= Len(df)
              /\ oracle_reads(df, idx) \subseteq 0..(Len(df) - 1)]_vars
    /\ <>(pc = "oracle returned")

\* the oracle has returned after reading the last row of a table in a valley
\* loop that ran to the end, having recorded a trade before
C24_Witness ==
    /\ pc = "oracle returned"
    /\ Len(df) >= 4
    /\ idx = Len(df) - 1
    /\ Len(trades) >= 1
    /\ prices(df, idx) < prices(df, idx - 1)


(* ------------- generate_trades: long and short calls together ---------- *)

\* the lists returned by the calls made with this direction
TradesOf(dir) ==
    UNION {{results[k].trades[j] : j \in 1..Len(results[k].trades)} :
              k \in {c \in 1..Len(results) : results[c].direction = dir}}

\* C25: on one indicator table the long trades and the short trades never
\* overlap in time: for every long trade L and every short trade S, S has
\* exited by L's entry date or L has exited by S's entry date.
C25_LongShortNeverOverlap ==
    \A L \in TradesOf("long") : \A S \in TradesOf("short") :
        \/ S.exit_date <= L.entry_date
        \/ L.exit_date <= S.entry_date

\* both calls have returned trades, and a short trade opens on the bar a long
\* trade closes on
C25_Witness ==
    \E L \in TradesOf("long") : \E S \in TradesOf("short") :
        /\ S.entry_date = L.exit_date
        /\ S.exit_date > L.exit_date


(* ---------- simulate_band over the whole range and the long side -------- *)

\* the band that holds every value an RSI can take
WholeRange == <<0, 100>>

\* one indicator table given to generate_trades(direction="long") and to
\* simulate_band(df_ind, 0, 100), in either order
NextRefine ==
    \/ ComputeIndicators
    \/ GenerateTrades("long")
    \/ SweepBand(WholeRange[1], WholeRange[2])

SpecRefine == Init /\ [][NextRefine]_vars

\* C26: with low = 0 and high = 100 simulate_band enters and exits on the
\* same bars as generate_trades(direction="long") on the same indicator
\* table, so it counts as many trades as there are long trades; the exit
\* price is the same, and the entry price is the entry bar's Close where
\* generate_trades takes its Open.
C26_WholeRangeBandIsLongSide ==
    \A c \in 1..Len(sweep) : \A k \in 1..Len(results) :
        LET banded == sweep[c].trades
            long   == results[k].trades
        IN  /\ sweep[c].stats.trades = Len(long)
            /\ Len(banded) = Len(long)
            /\ \A j \in 1..Len(long) :
                  /\ banded[j].entry_date = long[j].entry_date
                  /\ banded[j].exit_date = long[j].exit_date
                  /\ banded[j].exit_close = long[j].exit_close
                  /\ banded[j].entry_open = df_ind[BarOf(long[j].entry_date)].Close
                  /\ long[j].entry_open = df_ind[BarOf(long[j].entry_date)].Open

\* both have run on a table with a long trade whose entry bar closes away
\* from its open and has rsi_ma on the band's upper edge
C26_Witness ==
    \E c \in 1..Len(sweep) : \E k \in 1..Len(results) :
        \E j \in 1..Len(results[k].trades) :
            /\ sweep[c].stats.trades >= 1
            /\ sweep[c].trades[j].entry_open # results[k].trades[j].entry_open
            /\ df_ind[BarOf(results[k].trades[j].entry_date)].rsi_ma
                   = Num(WholeRange[2])

====
